---- MODULE Spec2Model ----
(***************************************************************************)
(* Model of the Argos service-migration planner (src/argos/argos.py), the  *)
(* faticanti2020 baseline (src/argos/faticanti2020.py) and the simulation  *)
(* loop that drives them (src/argos/__main__.py).                          *)
(*                                                                         *)
(* Edge servers, users, applications and services are numbered in their    *)
(* enumeration order (EdgeServer.all(), User.all(), ...).  Application a   *)
(* is owned by user a (app.users[0]).  Edge server n is attached to base   *)
(* station n.                                                              *)
(*                                                                         *)
(* The simulator's own operations are modelled by their effect on the      *)
(* fields the planners read: Service.migrate moves the service, adjusts    *)
(* both demands and appends to the history; EdgeServer.compute_demand sums *)
(* the hosted demands; User.set_communication_path and                     *)
(* Simulator.update_state leave a newly measured delay, any of Delays.     *)
(***************************************************************************)
EXTENDS Integers, Sequences, FiniteSets, TLC

VARIABLES
    algorithm,          \* the planner handed to run(): "argos" or "faticanti2020"
    capacity,           \* EdgeServer.capacity, per edge server
    service_demand,     \* Service.demand, per service
    app_services,       \* Application.services (the service chain), per application
    network_demand,     \* Application.network_demand, per application
    delay_slas,         \* user.delay_slas[app], per application
    trusted_servers,    \* User.trusted_servers, per user
    server,             \* Service.server, per service
    demand,             \* EdgeServer.demand, per edge server
    delays,             \* user.delays[app], per application
    base_station,       \* User.base_station, per user
    migrations,         \* Service.migrations (the step of each entry), per service
    current_step,       \* Simulator.current_step
    metrics,            \* Simulator.metrics[algorithm_name]
    original,           \* the state kept by store_original_state()
    pc,                 \* control point of run() and of the planner it called
    apps,               \* argos(): the sorted list `apps`
    app_index,          \* argos(): position of the `for app in apps` loop
    services,           \* the list `services` of the planner's service loop
    service_index,      \* position of the `for service in services` loop
    host_candidates,    \* argos(): the list `host_candidates`
    allocation_insights,\* argos(): the map returned by get_allocation_insights
    probe,              \* the tentative placements of the last get_allocation_insights call
    pre,                \* server, demand, delays and migrations when the planner was called
    at_optimum,         \* services argos() found on the first candidate of their ordering:
                        \* .now in the call under way, .last in the previous call if
                        \* nothing changed since it returned
    log,                \* the loop iterations run for a service and the calls of
                        \* set_communication_path, in order, of the last planner call
    invocations,        \* number of calls of the planner made by run() so far
    steady              \* TRUE while every state update of the run has left the users'
                        \* base stations and the applications' delays as the run found them

vars == <<algorithm, capacity, service_demand, app_services, network_demand,
          delay_slas, trusted_servers, server, demand, delays, base_station,
          migrations, current_step, metrics, original, pc, apps, app_index,
          services, service_index, host_candidates, allocation_insights,
          probe, pre, at_optimum, log, invocations, steady>>

config == <<algorithm, capacity, service_demand, app_services, network_demand,
            delay_slas, trusted_servers>>

locals == <<apps, app_index, services, service_index, host_candidates,
            allocation_insights, probe>>

-----------------------------------------------------------------------------
(* Bounds and input sets *)

\* Number of simulation steps of one run (Simulator.simulation_steps).
simulation_steps == 2

\* Base stations of the topology; edge server n sits on base station n and
\* base station 4 hosts no edge server.
BaseStations == 1..4

\* The weighted links of the topology (two base stations and a delay) and
\* the wireless hop delay.
Topology == [links |-> {<<1, 2, 2>>, <<2, 3, 17>>, <<1, 4, 10>>, <<3, 4, 10>>},
             wireless_delay |-> 3]

\* Base stations a user can be attached to while moving.
UserStations == {2, 4}

\* Values the collaborator may measure as an application's delay.
Delays == {50, 80}

\* EdgeServer.all(), Service.all(), Application.all() and User.all().
EdgeServers == DOMAIN capacity

Services == DOMAIN service_demand

Applications == DOMAIN app_services

Users == DOMAIN trusted_servers

-----------------------------------------------------------------------------
(* Python's sorted(): a stable sort on a tuple-valued key *)

LexLess(k1, k2) ==
    \E i \in 1..Len(k1) : k1[i] < k2[i] /\ \A j \in 1..(i - 1) : k1[j] = k2[j]

RECURSIVE Insert(_, _)
Insert(p, s) ==
    IF s = <<>> THEN <<p>>
    ELSE IF LexLess(p[1], s[Len(s)][1])
         THEN Append(Insert(p, SubSeq(s, 1, Len(s) - 1)), s[Len(s)])
         ELSE Append(s, p)

RECURSIVE SortPairs(_)
SortPairs(s) ==
    IF s = <<>> THEN <<>>
    ELSE Insert(s[Len(s)], SortPairs(SubSeq(s, 1, Len(s) - 1)))

\* sorted(seq, key=...): keys[i] is the key of seq[i]; the pairs of
\* <<key, element>> are sorted on the key, stably.
Sorted(seq, keys) ==
    LET pairs == SortPairs([i \in 1..Len(seq) |-> <<keys[i], seq[i]>>])
    IN  [i \in 1..Len(seq) |-> pairs[i][2]]

RECURSIVE SeqSum(_)
SeqSum(s) == IF s = <<>> THEN 0 ELSE s[1] + SeqSum(Tail(s))

RECURSIVE SetToSeq(_)
\* The elements of a set of numbers in ascending (enumeration) order.
SetToSeq(S) ==
    IF S = {} THEN <<>>
    ELSE LET m == CHOOSE x \in S : \A y \in S : x <= y
         IN  <<m>> \o SetToSeq(S \ {m})

Min(S) == CHOOSE x \in S : \A y \in S : x <= y

-----------------------------------------------------------------------------
(* Collaborators: topology, edge servers, services *)

LinkDelay(a, b) ==
    IF a = b THEN 0
    ELSE LET ws == {l[3] : l \in {m \in Topology.links :
                                   {m[1], m[2]} = {a, b}}}
         IN  IF ws = {} THEN 1000 ELSE Min(ws)

RECURSIVE PathDelay(_, _, _)
\* Delay of the cheapest path from a to b that uses at most k links.
PathDelay(a, b, k) ==
    IF k = 0 THEN (IF a = b THEN 0 ELSE 1000)
    ELSE Min({PathDelay(a, b, k - 1)} \cup
             {PathDelay(a, c, k - 1) + LinkDelay(c, b) : c \in BaseStations})

\* nx.shortest_path(..., weight="delay") followed by calculate_path_delay.
ShortestPathDelay ==
    [a \in BaseStations |-> [b \in BaseStations |->
        PathDelay(a, b, Cardinality(BaseStations) - 1)]]

\* get_delay(origin=user, target=edge_server)
get_delay(user, edge_server) ==
    ShortestPathDelay[base_station[user]][edge_server] + Topology.wireless_delay

\* The owner of an application: app.users[0].
AppUser(app) == app

\* service.application
ServiceApp(service) ==
    CHOOSE a \in Applications : \E i \in 1..Len(app_services[a]) : app_services[a][i] = service

\* EdgeServer.services as a set, for a given assignment.
Hosted(n, srv) == {s \in DOMAIN srv : srv[s] = n}

\* EdgeServer.compute_demand(): the demand of the services the server hosts.
compute_demand(n, srv) ==
    SeqSum([i \in 1..Len(SetToSeq(Hosted(n, srv))) |->
                service_demand[SetToSeq(Hosted(n, srv))[i]]])

-----------------------------------------------------------------------------
(* src/argos/argos.py *)

\* Variant of argos_sla_violated that counts a delay equal to the SLA.
argos_sla_reached(delay, sla) == delay >= sla

\* Variant of argos_sla_violated that takes up every application.
argos_sla_ignored(delay, sla) == TRUE

\* argos.py:21, the test that puts an application in scope.
argos_sla_violated(delay, sla) == delay > sla

\* Variant of argos_app_key with most slack first.
argos_app_key_descending(app) == <<delays[app] - delay_slas[app]>>

\* argos.py:13, the key that orders the applications.
argos_app_key(app) == <<delay_slas[app] - delays[app]>>

\* Variant of get_host_candidates that counts the user among the trusting users.
get_host_candidates_with_self(user) ==
    [edge_server \in 1..Len(capacity) |->
        [object        |-> edge_server,
         delay         |-> get_delay(user, edge_server),
         trusted_users |-> Cardinality({u \in Users :
                               edge_server \in trusted_servers[u]}),
         is_trusted    |-> IF edge_server \in trusted_servers[user] THEN 1 ELSE 0]]

\* argos.py:97-122
get_host_candidates(user) ==
    [edge_server \in 1..Len(capacity) |->
        [object        |-> edge_server,
         delay         |-> get_delay(user, edge_server),
         trusted_users |-> Cardinality({u \in Users :
                               edge_server \in trusted_servers[u] /\ u # user}),
         is_trusted    |-> IF edge_server \in trusted_servers[user] THEN 1 ELSE 0]]

\* Variant of probe_server_key that puts the most free edge server first.
probe_server_key_descending(edge_server, dem) ==
    <<dem[edge_server] - capacity[edge_server]>>

\* argos.py:76, the key that orders the trusted edge servers of the probe.
probe_server_key(edge_server, dem) == <<capacity[edge_server] - dem[edge_server]>>

\* argos.py:75-76
probe_edge_servers(user, dem) ==
    LET listed == SetToSeq({n \in EdgeServers : n \in trusted_servers[user]})
    IN  Sorted(listed, [i \in 1..Len(listed) |-> probe_server_key(listed[i], dem)])

\* Variant of probe_fits that reads the demand without the tentative increments.
probe_fits_untouched(edge_node, service, dem) ==
    capacity[edge_node] >= demand[edge_node] + service_demand[service]

\* argos.py:82
probe_fits(edge_node, service, dem) ==
    capacity[edge_node] >= dem[edge_node] + service_demand[service]

\* argos.py:81-86, the index of the edge server that receives the tentative
\* increment, 0 when the inner loop ends without a host.
probe_host(edge_servers, service, dem) ==
    LET hits == {i \in 1..Len(edge_servers) : probe_fits(edge_servers[i], service, dem)}
    IN  IF hits = {} THEN 0 ELSE Min(hits)

RECURSIVE probe_services(_, _, _)
\* argos.py:79-88.  st carries the tentative demand, the insights gathered
\* so far and the trace of tentative placements.
probe_services(svcs, edge_servers, st) ==
    IF svcs = <<>> THEN st
    ELSE LET service == Head(svcs)
             i == probe_host(edge_servers, service, st.demand)
         IN  IF i = 0
             THEN probe_services(Tail(svcs), edge_servers,
                    [st EXCEPT !.insights = @ @@ (service :> FALSE)])
             ELSE probe_services(Tail(svcs), edge_servers,
                    [demand   |-> [st.demand EXCEPT ![edge_servers[i]] =
                                       @ + service_demand[service]],
                     insights |-> st.insights @@ (service :> TRUE),
                     trace    |-> Append(st.trace,
                                    [service |-> service,
                                     edge_node |-> edge_servers[i],
                                     demand |-> st.demand])])

\* Variant of probe_restore that keeps the tentative demand.
probe_no_restore(edge_node, tentative) == tentative[edge_node]

\* argos.py:90-92, what is left in a trusted edge server's demand field.
probe_restore(edge_node, tentative) == compute_demand(edge_node, server)

\* argos.py:62-94.  Returns the insights, the demand of every edge server
\* after the call, and the tentative placements made on the way.
get_allocation_insights(user, svcs) ==
    LET edge_servers == probe_edge_servers(user, demand)
        st == probe_services(svcs, edge_servers,
                 [demand |-> demand, insights |-> <<>>, trace |-> <<>>])
        listed == {edge_servers[i] : i \in 1..Len(edge_servers)}
    IN  [insights |-> st.insights,
         demand   |-> [n \in DOMAIN demand |->
                          IF n \in listed THEN probe_restore(n, st.demand)
                                          ELSE st.demand[n]],
         trace    |-> st.trace,
         order    |-> edge_servers]

\* Variant of trust_first_key with the sign of the trust flag lost.
untrusted_first_key(c) == <<c.is_trusted, c.delay, c.trusted_users>>

\* argos.py:31-38, the sort key used when the service's insight is true.
trust_first_key(c) == <<0 - c.is_trusted, c.delay, c.trusted_users>>

\* Variant of delay_first_key with the two keys exchanged.
users_first_key(c) == <<c.trusted_users, c.delay>>

\* argos.py:40-46, the sort key used when the service's insight is false.
delay_first_key(c) == <<c.delay, c.trusted_users>>

\* Variant of sort_host_candidates with the two branches exchanged.
sort_host_candidates_swapped(candidates, insight) ==
    IF insight
    THEN Sorted(candidates, [i \in 1..Len(candidates) |-> delay_first_key(candidates[i])])
    ELSE Sorted(candidates, [i \in 1..Len(candidates) |-> trust_first_key(candidates[i])])

\* argos.py:30-46
sort_host_candidates(candidates, insight) ==
    IF insight
    THEN Sorted(candidates, [i \in 1..Len(candidates) |-> trust_first_key(candidates[i])])
    ELSE Sorted(candidates, [i \in 1..Len(candidates) |-> delay_first_key(candidates[i])])

\* Variant of argos_is_current for a scan that never stops at the current server.
argos_never_current(service, edge_server) == FALSE

\* argos.py:52
argos_is_current(service, edge_server) == server[service] = edge_server

\* Variant of argos_fits that leaves the service's own demand out.
argos_fits_without_service(edge_server, service) ==
    capacity[edge_server] >= demand[edge_server]

\* argos.py:55
argos_fits(edge_server, service) ==
    capacity[edge_server] >= demand[edge_server] + service_demand[service]

\* Variant of argos_target with the two tests of the scan swapped.
argos_target_fit_first(candidates, service) ==
    LET stops == {i \in 1..Len(candidates) :
                     \/ argos_is_current(service, candidates[i].object)
                     \/ argos_fits(candidates[i].object, service)}
    IN  IF stops = {} THEN 0
        ELSE IF argos_fits(candidates[Min(stops)].object, service)
             THEN candidates[Min(stops)].object
        ELSE 0

\* argos.py:49-57: the edge server the service is migrated to, 0 when the
\* scan ends (break at the current server, or list exhausted) without one.
argos_target(candidates, service) ==
    LET stops == {i \in 1..Len(candidates) :
                     \/ argos_is_current(service, candidates[i].object)
                     \/ argos_fits(candidates[i].object, service)}
    IN  IF stops = {} THEN 0
        ELSE IF argos_is_current(service, candidates[Min(stops)].object) THEN 0
        ELSE candidates[Min(stops)].object

\* The service's current server heads the candidate list.
argos_is_first(candidates, service) == candidates[1].object = server[service]

Snapshot == [server |-> server, demand |-> demand, delays |-> delays,
             migrations |-> migrations]

\* Variant of AfterAlgorithm that has run() call the planner again.
AfterAlgorithm_again == "algorithm"

\* Variant of AfterAlgorithm that has run() take the sample after the planner.
AfterAlgorithm_sample == "collect_metrics"

\* The planner returns to run(): next loop iteration, or the code after the loop.
AfterAlgorithm == IF current_step < simulation_steps THEN "update_state" ELSE "final_metrics"

\* The planner's local variables do not exist outside a call.
NoLocals ==
    /\ apps = <<>>
    /\ app_index = 0
    /\ services = <<>>
    /\ service_index = 0
    /\ host_candidates = <<>>
    /\ allocation_insights = <<>>
    /\ probe = [user |-> 0, order |-> <<>>, trace |-> <<>>]

\* Leaving the planner discards its local variables.
ResetLocals ==
    /\ apps' = <<>>
    /\ app_index' = 0
    /\ services' = <<>>
    /\ service_index' = 0
    /\ host_candidates' = <<>>
    /\ allocation_insights' = <<>>
    /\ probe' = [user |-> 0, order |-> <<>>, trace |-> <<>>]

\* argos.py:13, entry of argos().
ArgosBegin ==
    /\ pc = "algorithm"
    /\ algorithm = "argos"
    /\ apps' = Sorted(SetToSeq(Applications),
                      [a \in 1..Len(SetToSeq(Applications)) |-> argos_app_key(a)])
    /\ app_index' = 1
    /\ pre' = Snapshot
    /\ pc' = "argos_apps"
    /\ UNCHANGED <<config, server, demand, delays, base_station, migrations,
                   current_step, metrics, original, services, service_index,
                   host_candidates, allocation_insights, probe>>
    /\ at_optimum' = [at_optimum EXCEPT !.now = {}]
    /\ log' = <<>>
    /\ invocations' = invocations + 1
    /\ UNCHANGED steady

\* argos.py:15-27, one iteration head of `for app in apps`.
ArgosApp ==
    /\ pc = "argos_apps"
    /\ app_index <= Len(apps)
    /\ LET app == apps[app_index]
           user == AppUser(app)
       IN  IF argos_sla_violated(delays[app], delay_slas[app])
           THEN LET insights == get_allocation_insights(user, app_services[app])
                IN  /\ host_candidates' = get_host_candidates(user)
                    /\ services' = app_services[app]
                    /\ allocation_insights' = insights.insights
                    /\ probe' = [user |-> user, order |-> insights.order,
                                 trace |-> insights.trace]
                    /\ demand' = insights.demand
                    /\ service_index' = 1
                    /\ pc' = "argos_services"
                    /\ UNCHANGED app_index
           ELSE /\ app_index' = app_index + 1
                /\ UNCHANGED <<host_candidates, services, allocation_insights,
                               probe, demand, service_index, pc>>
    /\ UNCHANGED <<config, server, delays, base_station, migrations,
                   current_step, metrics, original, apps, pre>>
    /\ UNCHANGED at_optimum
    /\ UNCHANGED log
    /\ UNCHANGED invocations
    /\ UNCHANGED steady

\* argos.py:29-57, one iteration of `for service in services`.
ArgosService ==
    /\ pc = "argos_services"
    /\ service_index <= Len(services)
    /\ LET service == services[service_index]
           sorted_candidates == sort_host_candidates(host_candidates,
                                                     allocation_insights[service])
           target == argos_target(sorted_candidates, service)
       IN  /\ host_candidates' = sorted_candidates
           /\ at_optimum' = [at_optimum EXCEPT !.now =
                                IF argos_is_first(sorted_candidates, service)
                                THEN @ \cup {service} ELSE @ \ {service}]
           /\ IF target = 0
              THEN UNCHANGED <<server, demand, migrations>>
              ELSE \* service.migrate(target_server=edge_server)
                   /\ server' = [server EXCEPT ![service] = target]
                   /\ demand' = [demand EXCEPT
                                   ![server[service]] = @ - service_demand[service],
                                   ![target] = @ + service_demand[service]]
                   /\ migrations' = [migrations EXCEPT ![service] =
                                        Append(@, current_step)]
    /\ service_index' = service_index + 1
    /\ log' = Append(log, [op |-> "service", of |-> services[service_index]])
    /\ UNCHANGED invocations
    /\ UNCHANGED steady
    /\ UNCHANGED <<config, delays, base_station, current_step, metrics, original,
                   pc, apps, app_index, services, allocation_insights, probe, pre>>

\* Variant of ArgosSetPath that has the delay of every application measured again.
ArgosSetPath_all ==
    /\ pc = "argos_services"
    /\ service_index > Len(services)
    /\ delays' \in [Applications -> Delays]
    /\ app_index' = app_index + 1
    /\ pc' = "argos_apps"
    /\ UNCHANGED <<config, server, demand, base_station, migrations, current_step,
                   metrics, original, apps, services, service_index,
                   host_candidates, allocation_insights, probe, pre>>
    /\ UNCHANGED at_optimum
    /\ log' = Append(log, [op |-> "set_communication_path", of |-> apps[app_index]])
    /\ UNCHANGED invocations
    /\ UNCHANGED steady

\* argos.py:59, user.set_communication_path(app=app) once the services are done.
ArgosSetPath ==
    /\ pc = "argos_services"
    /\ service_index > Len(services)
    /\ \E d \in Delays : delays' = [delays EXCEPT ![apps[app_index]] = d]
    /\ app_index' = app_index + 1
    /\ pc' = "argos_apps"
    /\ UNCHANGED <<config, server, demand, base_station, migrations, current_step,
                   metrics, original, apps, services, service_index,
                   host_candidates, allocation_insights, probe, pre>>
    /\ UNCHANGED at_optimum
    /\ log' = Append(log, [op |-> "set_communication_path", of |-> apps[app_index]])
    /\ UNCHANGED invocations
    /\ UNCHANGED steady

\* argos() returns when the application loop is exhausted.
ArgosReturn ==
    /\ pc = "argos_apps"
    /\ app_index > Len(apps)
    /\ pc' = AfterAlgorithm
    /\ ResetLocals
    /\ UNCHANGED <<config, server, demand, delays, base_station, migrations,
                   current_step, metrics, original, pre>>
    /\ at_optimum' = [last |-> at_optimum.now, now |-> {}]
    /\ UNCHANGED log
    /\ UNCHANGED invocations
    /\ UNCHANGED steady

-----------------------------------------------------------------------------
(* src/argos/faticanti2020.py *)

\* Position of a service in its application's chain (list.index, from 0).
ChainIndex(service) ==
    LET chain == app_services[ServiceApp(service)]
    IN  Min({i \in 1..Len(chain) : chain[i] = service}) - 1

\* Variant of faticanti_service_key with the network demand as first key.
faticanti_service_key_demand_first(service) ==
    <<network_demand[ServiceApp(service)], ChainIndex(service)>>

\* faticanti2020.py:24
faticanti_service_key(service) ==
    <<ChainIndex(service), network_demand[ServiceApp(service)]>>

\* Variant of faticanti_sla_violated that lets every service through.
faticanti_always_scans(delay, sla) == TRUE

\* faticanti2020.py:38
faticanti_sla_violated(delay, sla) == delay > sla

\* Variant of faticanti_server_key with most free capacity first.
faticanti_server_key_descending(user, s) ==
    <<0 - (IF s \in trusted_servers[user] THEN 1 ELSE 0),
      get_delay(user, s),
      demand[s] - capacity[s]>>

\* faticanti2020.py:42-46
faticanti_server_key(user, s) ==
    <<0 - (IF s \in trusted_servers[user] THEN 1 ELSE 0),
      get_delay(user, s),
      capacity[s] - demand[s]>>

\* Variant of faticanti_is_current for a scan that never stops at the current server.
faticanti_never_current(service, edge_server) == FALSE

\* faticanti2020.py:52
faticanti_is_current(service, edge_server) == server[service] = edge_server

\* Variant of faticanti_fits that leaves the service's own demand out.
faticanti_fits_without_service(edge_server, service) ==
    capacity[edge_server] >= demand[edge_server]

\* faticanti2020.py:55
faticanti_fits(edge_server, service) ==
    capacity[edge_server] >= demand[edge_server] + service_demand[service]

\* faticanti2020.py:51-58: the edge server the service is migrated to, or 0.
faticanti_target(edge_servers, service) ==
    LET stops == {i \in 1..Len(edge_servers) :
                     \/ faticanti_is_current(service, edge_servers[i])
                     \/ faticanti_fits(edge_servers[i], service)}
    IN  IF stops = {} THEN 0
        ELSE IF faticanti_is_current(service, edge_servers[Min(stops)]) THEN 0
        ELSE edge_servers[Min(stops)]

\* faticanti2020.py:22-25, entry of faticanti2020().
FaticantiBegin ==
    /\ pc = "algorithm"
    /\ algorithm = "faticanti2020"
    /\ services' = Sorted(SetToSeq(Services),
                          [s \in 1..Len(SetToSeq(Services)) |-> faticanti_service_key(s)])
    /\ service_index' = 1
    /\ pre' = Snapshot
    /\ pc' = "faticanti_services"
    /\ UNCHANGED <<config, server, demand, delays, base_station, migrations,
                   current_step, metrics, original, apps, app_index,
                   host_candidates, allocation_insights, probe>>
    /\ UNCHANGED at_optimum
    /\ log' = <<>>
    /\ invocations' = invocations + 1
    /\ UNCHANGED steady

\* faticanti2020.py:27-58, one iteration of `for service in services`.
FaticantiService ==
    /\ pc = "faticanti_services"
    /\ service_index <= Len(services)
    /\ LET service == services[service_index]
           app == ServiceApp(service)
           user == AppUser(app)
           edge_servers == Sorted(SetToSeq(EdgeServers),
                                  [s \in 1..Len(SetToSeq(EdgeServers)) |->
                                      faticanti_server_key(user, s)])
           target == IF faticanti_sla_violated(delays[app], delay_slas[app])
                     THEN faticanti_target(edge_servers, service)
                     ELSE 0
       IN  IF target = 0
           THEN /\ UNCHANGED <<server, demand, migrations, delays>>
                /\ log' = Append(log, [op |-> "service", of |-> service])
           ELSE \* service.migrate(target_server=edge_server)
                /\ server' = [server EXCEPT ![service] = target]
                /\ demand' = [demand EXCEPT
                                ![server[service]] = @ - service_demand[service],
                                ![target] = @ + service_demand[service]]
                /\ migrations' = [migrations EXCEPT ![service] =
                                     Append(@, current_step)]
                \* user.set_communication_path(app=app)
                /\ \E d \in Delays : delays' = [delays EXCEPT ![app] = d]
                /\ log' = log \o <<[op |-> "service", of |-> service],
                                   [op |-> "set_communication_path", of |-> app]>>
    /\ service_index' = service_index + 1
    /\ UNCHANGED invocations
    /\ UNCHANGED steady
    /\ UNCHANGED <<config, base_station, current_step, metrics, original, pc,
                   apps, app_index, services, host_candidates,
                   allocation_insights, probe, pre>>
    /\ UNCHANGED at_optimum

\* faticanti2020() returns when the service loop is exhausted.
FaticantiReturn ==
    /\ pc = "faticanti_services"
    /\ service_index > Len(services)
    /\ pc' = AfterAlgorithm
    /\ ResetLocals
    /\ UNCHANGED <<config, server, demand, delays, base_station, migrations,
                   current_step, metrics, original, pre>>
    /\ UNCHANGED at_optimum
    /\ UNCHANGED log
    /\ UNCHANGED invocations
    /\ UNCHANGED steady

-----------------------------------------------------------------------------
(* src/argos/__main__.py *)

\* __main__.py:75, Simulator.update_state(step): the users move and the
\* collaborator measures every application's delay again.
UpdateState ==
    /\ pc = "update_state"
    /\ current_step < simulation_steps
    /\ current_step' = current_step + 1
    /\ base_station' \in [Users -> UserStations]
    /\ delays' \in [Applications -> Delays]
    /\ pre' = [server |-> server, demand |-> demand, delays |-> delays',
               migrations |-> migrations]
    /\ pc' = "collect_metrics"
    /\ UNCHANGED <<config, server, demand, migrations, metrics, original, locals>>
    /\ at_optimum' = IF base_station' = base_station /\ delays' = delays
                      THEN at_optimum ELSE [last |-> {}, now |-> {}]
    /\ log' = <<>>
    /\ UNCHANGED invocations
    /\ steady' = (steady /\ base_station' = original.base_station
                          /\ delays' = original.delays)

\* __main__.py:126-132, the migrations a sample counts.
counted_migration(step) ==
    \/ step = current_step - 1
    \/ (current_step = simulation_steps /\ step = current_step)

\* __main__.py:119-132, len of the list `migrations` of one sample.
sample_migrations ==
    SeqSum([s \in 1..Len(migrations) |->
              Cardinality({i \in 1..Len(migrations[s]) :
                             counted_migration(migrations[s][i])})])

\* __main__.py:90-143, collect_metrics(): the sample appended to the metrics.
\* Of the sample the model keeps the step and the number of migrations.
CollectMetrics ==
    /\ pc \in {"collect_metrics", "final_metrics"}
    /\ metrics' = Append(metrics, [step |-> current_step,
                                   migrations |-> sample_migrations])
    /\ pc' = IF pc = "collect_metrics" THEN "algorithm" ELSE "restore"
    /\ UNCHANGED <<config, server, demand, delays, base_station, migrations,
                   current_step, original, locals, pre>>
    /\ UNCHANGED at_optimum
    /\ UNCHANGED log
    /\ UNCHANGED invocations
    /\ UNCHANGED steady

\* __main__.py:87, restore_original_state() ends run().
RestoreOriginalState ==
    /\ pc = "restore"
    /\ server' = original.server
    /\ demand' = original.demand
    /\ delays' = original.delays
    /\ base_station' = original.base_station
    /\ migrations' = original.migrations
    /\ current_step' = 0
    /\ pre' = [server |-> original.server, demand |-> original.demand,
               delays |-> original.delays, migrations |-> original.migrations]
    /\ pc' = "finished"
    /\ UNCHANGED <<config, metrics, original, locals>>
    /\ at_optimum' = [last |-> {}, now |-> {}]
    /\ log' = <<>>
    /\ UNCHANGED invocations
    /\ steady' = TRUE

-----------------------------------------------------------------------------
(* The scenarios a run starts from *)

\* Capacities an edge server may have, per edge server.
Capacities == <<{15, 20}, {40}, {20, 50}>>

\* Demands a service may have.
ServiceDemands == {10, 20}

\* One user with one application of two services.
SingleApp ==
    /\ capacity \in {c \in [1..3 -> {15, 20, 40, 50}] :
                        \A n \in 1..3 : c[n] \in Capacities[n]}
    /\ app_services = << <<1, 2>> >>
    /\ network_demand = <<2>>
    /\ service_demand \in [1..2 -> ServiceDemands]
    /\ delay_slas \in {<<50>>, <<90>>}
    /\ trusted_servers \in [1..1 -> SUBSET (1..3)]

\* Two users, each with one application; three services in all.
TwoApps ==
    /\ capacity = <<20, 40, 20>>
    /\ app_services = << <<1, 2>>, <<3>> >>
    /\ network_demand \in {<<2, 4>>, <<4, 2>>}
    /\ service_demand = <<10, 20, 20>>
    /\ delay_slas \in {<<50, 50>>, <<70, 50>>}
    /\ trusted_servers \in {<<t1, t2>> : t1 \in {{1, 3}, {2}}, t2 \in {{}, {1}}}

\* __main__.py:58-70: the state run() starts from, as loaded from the
\* dataset: every service placed, every demand the sum of what is hosted.
Init ==
    /\ algorithm \in {"argos", "faticanti2020"}
    /\ (SingleApp \/ TwoApps)
    /\ server \in {srv \in [DOMAIN service_demand -> DOMAIN capacity] :
                      \A n \in DOMAIN capacity : compute_demand(n, srv) <= capacity[n]}
    /\ demand = [n \in DOMAIN capacity |-> compute_demand(n, server)]
    /\ delays = [a \in DOMAIN app_services |-> 80]
    /\ base_station = [u \in DOMAIN trusted_servers |-> 2]
    /\ migrations = [s \in DOMAIN service_demand |-> <<>>]
    /\ current_step = 0
    /\ metrics = <<>>
    /\ original = [server |-> server, demand |-> demand, delays |-> delays,
                   base_station |-> base_station, migrations |-> migrations]
    /\ pc = "update_state"
    /\ NoLocals
    /\ pre = Snapshot
    /\ at_optimum = [last |-> {}, now |-> {}]
    /\ log = <<>>
    /\ invocations = 0
    /\ steady = TRUE

Next ==
    \/ UpdateState
    \/ CollectMetrics
    \/ ArgosBegin
    \/ ArgosApp
    \/ ArgosService
    \/ ArgosSetPath
    \/ ArgosReturn
    \/ FaticantiBegin
    \/ FaticantiService
    \/ FaticantiReturn
    \/ RestoreOriginalState

Spec == Init /\ [][Next]_vars

-----------------------------------------------------------------------------
(* Vocabulary of the properties *)

\* A planner call is under way.
InArgos == pc \in {"argos_apps", "argos_services"}

InFaticanti == pc = "faticanti_services"

InPlanner == InArgos \/ InFaticanti

\* The planner has returned and run() has not yet moved on.
Returned == pc \in {"update_state", "final_metrics"} /\ current_step >= 1

\* The step processes one service in argos() / faticanti2020().
ArgosServiceStep == pc = "argos_services" /\ service_index <= Len(services)

FaticantiServiceStep == pc = "faticanti_services" /\ service_index <= Len(services)

\* The service of the last finished iteration of the service loop.
LastService == services[service_index - 1]

\* Position of an edge server in a list of candidate records.
CandidateIndex(candidates, n) ==
    Min({i \in 1..Len(candidates) : candidates[i].object = n})

Trusts(service, n) == n \in trusted_servers[AppUser(ServiceApp(service))]

\* The edge server has room for the service under the current demands.
Fits(n, service) == capacity[n] >= demand[n] + service_demand[service]

-----------------------------------------------------------------------------
(* C1 *)

\* C1: capacity invariant.  From a consistent start, in every state of a
\* run, between and inside the calls of argos() and faticanti2020(), and so
\* after every committed migration, every edge server has demand <= capacity.
C1_CapacityInvariant ==
    \A n \in EdgeServers : demand[n] <= capacity[n]

\* A migration of the call under way has filled its target to the brim.
C1_Witness ==
    /\ InPlanner
    /\ \E s \in Services :
          /\ server[s] # pre.server[s]
          /\ demand[server[s]] = capacity[server[s]]
          /\ demand[server[s]] > service_demand[s]

-----------------------------------------------------------------------------
(* C2 *)

NoViolation(d) == \A a \in Applications : d[a] <= delay_slas[a]

\* C2: no-violation stability.  When no application's delay exceeds its SLA
\* as argos() is called, assignments, demands and migration histories stay
\* what they were throughout the call and when it has returned.
C2_NoViolationStability ==
    (algorithm = "argos" /\ (InArgos \/ Returned) /\ NoViolation(pre.delays))
        => /\ server = pre.server
           /\ demand = pre.demand
           /\ migrations = pre.migrations

\* argos() has returned from a call with an application exactly at its SLA
\* whose first service sat on an edge server that is not the nearest one.
C2_Witness ==
    /\ algorithm = "argos"
    /\ Returned
    /\ NoViolation(pre.delays)
    /\ \E a \in Applications :
          /\ pre.delays[a] = delay_slas[a]
          /\ \E n \in EdgeServers :
                /\ get_delay(AppUser(a), n) < get_delay(AppUser(a), server[app_services[a][1]])
                /\ Fits(n, app_services[a][1])

-----------------------------------------------------------------------------
(* C3 *)

\* C3: trust preference.  When argos() processes a service whose insight is
\* true while some trusted edge server has room for it, the service is not
\* migrated to an untrusted edge server if a trusted one with room has an
\* equal or lower delay.
C3_TrustPreference ==
    [][(/\ ArgosServiceStep
        /\ allocation_insights[services[service_index]]
        /\ \E n \in EdgeServers : /\ Trusts(services[service_index], n)
                                  /\ Fits(n, services[service_index])
        /\ server'[services[service_index]] # server[services[service_index]])
       => LET s == services[service_index]
              t == server'[s]
              u == AppUser(ServiceApp(s))
          IN  ~ (/\ ~ Trusts(s, t)
                 /\ \E m \in EdgeServers : /\ Trusts(s, m)
                                           /\ Fits(m, s)
                                           /\ get_delay(u, m) <= get_delay(u, t))]_vars

\* A service with a true insight has just been migrated to a trusted edge
\* server although an untrusted one with room was nearer or as near.
C3_Witness ==
    /\ pc = "argos_services"
    /\ service_index > 1
    /\ allocation_insights[LastService]
    /\ server[LastService] # pre.server[LastService]
    /\ Trusts(LastService, server[LastService])
    /\ \E n \in EdgeServers :
          /\ ~ Trusts(LastService, n)
          /\ n # pre.server[LastService]
          /\ Fits(n, LastService)
          /\ get_delay(AppUser(ServiceApp(LastService)), n)
                <= get_delay(AppUser(ServiceApp(LastService)), server[LastService])

-----------------------------------------------------------------------------
(* C4 *)

\* The step leaves the service where it is and appends nothing to its history.
NotMigrated(s) == server'[s] = server[s] /\ migrations'[s] = migrations[s]

\* C4 as stated: a service found on the first candidate of its ordering is
\* not migrated by that call of argos(), nor by the next call when nothing
\* else changed in between.
C4_IdempotenceAcrossCalls ==
    [][ArgosServiceStep =>
         LET s == services[service_index]
             sorted_candidates == sort_host_candidates(host_candidates,
                                                       allocation_insights[s])
         IN  (argos_is_first(sorted_candidates, s) \/ s \in at_optimum.last)
                => NotMigrated(s)]_vars

\* C4 amended: a service whose current edge server is the first candidate of
\* the ordering argos() computes for it in a call is not migrated by that
\* call; this holds in every call, for the ordering computed in that call.
C4_IdempotenceUnderOptimum ==
    [][ArgosServiceStep =>
         LET s == services[service_index]
             sorted_candidates == sort_host_candidates(host_candidates,
                                                       allocation_insights[s])
         IN  argos_is_first(sorted_candidates, s) => NotMigrated(s)]_vars

\* In two successive calls with nothing changed in between, a service was
\* found on the first candidate of its ordering, which had room for it.
C4_Witness ==
    /\ pc = "argos_services"
    /\ service_index > 1
    /\ LastService \in at_optimum.last
    /\ LastService \in at_optimum.now
    /\ server[LastService] = pre.server[LastService]
    /\ Fits(server[LastService], LastService)

-----------------------------------------------------------------------------
(* C5 *)

\* The step is the one in which argos() calls get_allocation_insights.
ProbeStep == pc = "argos_apps" /\ pc' = "argos_services"

\* C5: probe side-effect freedom.  When get_allocation_insights has
\* returned, every edge server the user trusts has the demand of the
\* services it hosts, no other edge server's demand has changed and no
\* service has changed its edge server.
C5_ProbeSideEffectFree ==
    [][ProbeStep =>
         LET user == AppUser(apps[app_index])
         IN  /\ \A n \in trusted_servers[user] :
                   demand'[n] = compute_demand(n, server')
             /\ \A n \in EdgeServers \ trusted_servers[user] :
                   demand'[n] = demand[n]
             /\ server' = server]_vars

\* The probe has just returned after two tentative increments, the second
\* on top of the first.
C5_Witness ==
    /\ pc = "argos_services"
    /\ service_index = 1
    /\ Len(probe.trace) = 2
    /\ probe.trace[1].edge_node = probe.trace[2].edge_node
    /\ demand[probe.trace[1].edge_node] = probe.trace[1].demand[probe.trace[1].edge_node]

-----------------------------------------------------------------------------
(* C6 *)

\* C6: commit rule.  A planner step moves a service to an edge server only
\* if that server's capacity covers its demand plus the service's demand at
\* that moment; a server with demand = capacity receives nothing.
C6_CommitRule ==
    [][InPlanner =>
         \A s \in Services :
            server'[s] # server[s] =>
               /\ capacity[server'[s]] >= demand[server'[s]] + service_demand[s]
               /\ demand[server'[s]] # capacity[server'[s]]]_vars

\* A service has just been migrated past an edge server that its user
\* trusts, that is nearer than the target and that is exactly full.
C6_Witness ==
    /\ InPlanner
    /\ service_index > 1
    /\ server[LastService] # pre.server[LastService]
    /\ \E n \in EdgeServers :
          /\ n # server[LastService]
          /\ n # pre.server[LastService]
          /\ Trusts(LastService, n)
          /\ demand[n] = capacity[n]
          /\ get_delay(AppUser(ServiceApp(LastService)), n)
                < get_delay(AppUser(ServiceApp(LastService)), server[LastService])

-----------------------------------------------------------------------------
(* C7 *)

\* The reference scenario: edge servers A, B, C are 1, 2, 3; the user sees
\* delays 5, 3 and 20 to them; both services were on B when argos() was called.
ReferenceScenario ==
    /\ algorithm = "argos"
    /\ app_services = << <<1, 2>> >>
    /\ service_demand = <<10, 20>>
    /\ delay_slas = <<50>>
    /\ capacity = <<15, 40, 50>>
    /\ trusted_servers = << {1, 3} >>
    /\ <<get_delay(1, 1), get_delay(1, 2), get_delay(1, 3)>> = <<5, 3, 20>>
    /\ pre.delays = <<80>>
    /\ pre.server = <<2, 2>>
    /\ pre.demand = <<0, 30, 0>>

\* C7: reference scenario.  One call of argos() on the reference scenario
\* ends with s1 on A and s2 on C after exactly two migrations.
C7_ReferenceScenario ==
    (ReferenceScenario /\ Returned)
        => /\ server = <<1, 3>>
           /\ Len(migrations[1]) + Len(migrations[2])
                 = Len(pre.migrations[1]) + Len(pre.migrations[2]) + 2

\* argos() has returned from a call made on the reference scenario.
C7_Witness ==
    /\ ReferenceScenario
    /\ Returned
    /\ demand = <<10, 0, 20>>

-----------------------------------------------------------------------------
(* C8 *)

\* No candidate listed before the service's current edge server has room.
NoRoomAhead(candidates, s) ==
    \A i \in 1..Len(candidates) :
        i < CandidateIndex(candidates, server[s]) => ~ Fits(candidates[i].object, s)

\* C8: capacity exhaustion is a silent no-op.  When argos() processes a
\* service and no candidate ahead of its current edge server has room, the
\* service stays, no history entry is appended, no demand changes, and the
\* loop goes on to the next service.
C8_ExhaustionIsNoOp ==
    [][ArgosServiceStep =>
         LET s == services[service_index]
             sorted_candidates == sort_host_candidates(host_candidates,
                                                       allocation_insights[s])
         IN  NoRoomAhead(sorted_candidates, s)
                => /\ server' = server
                   /\ migrations' = migrations
                   /\ demand' = demand
                   /\ pc' = "argos_services"
                   /\ service_index' = service_index + 1
                   /\ app_index' = app_index]_vars

\* A service has just been left in place although edge servers were listed
\* before its own: none of them had room, while one listed after it has.
C8_Witness ==
    /\ pc = "argos_services"
    /\ service_index > 1
    /\ server[LastService] = pre.server[LastService]
    /\ migrations[LastService] = pre.migrations[LastService]
    /\ CandidateIndex(host_candidates, server[LastService]) > 1
    /\ NoRoomAhead(host_candidates, LastService)
    /\ \E i \in 1..Len(host_candidates) :
          /\ i > CandidateIndex(host_candidates, server[LastService])
          /\ Fits(host_candidates[i].object, LastService)

-----------------------------------------------------------------------------
(* C9 *)

\* Free capacity of an edge server when the probe sorted its list.
ProbeFree(n) == capacity[n] - probe.trace[1].demand[n]

\* The probe's tentative placements, by position in its trace.
ProbeEntries == 1..Len(probe.trace)

\* C9 as stated: the edge server that receives a tentative increment is the
\* first with room in descending order of free capacity, so no trusted
\* server with more free capacity had room for the probed service.
C9_ProbeMostFreeFirst ==
    \A k \in ProbeEntries :
        LET e == probe.trace[k]
        IN  \A m \in trusted_servers[probe.user] :
                ProbeFree(m) > ProbeFree(e.edge_node)
                    => ~ probe_fits(m, e.service, e.demand)

\* C9 amended: the probe scans the user's trusted edge servers in ascending
\* order of free capacity (least free first, ties in enumeration order); the
\* server that receives the tentative increment is the first in that order
\* with room, given the increments made before.
C9_ProbeLeastFreeFirst ==
    \A k \in ProbeEntries :
        LET e == probe.trace[k]
        IN  /\ e.edge_node \in trusted_servers[probe.user]
            /\ probe_fits(e.edge_node, e.service, e.demand)
            /\ \A m \in trusted_servers[probe.user] :
                  (\/ ProbeFree(m) < ProbeFree(e.edge_node)
                   \/ (ProbeFree(m) = ProbeFree(e.edge_node) /\ m < e.edge_node))
                     => ~ probe_fits(m, e.service, e.demand)

\* The probe has placed a service on a trusted edge server while another
\* trusted server, with more free capacity, had room for it as well.
C9_Witness ==
    /\ pc = "argos_services"
    /\ \E k \in ProbeEntries :
          \E m \in trusted_servers[probe.user] :
             /\ ProbeFree(m) > ProbeFree(probe.trace[k].edge_node)
             /\ probe_fits(m, probe.trace[k].service, probe.trace[k].demand)

-----------------------------------------------------------------------------
(* C10 *)

\* The application of the service being processed is within its SLA.
WithinSla(s) == delays[ServiceApp(s)] <= delay_slas[ServiceApp(s)]

\* The candidate order faticanti2020() computes for a service.
FaticantiOrder(s) ==
    Sorted(SetToSeq(EdgeServers),
           [n \in 1..Len(SetToSeq(EdgeServers)) |->
               faticanti_server_key(AppUser(ServiceApp(s)), n)])

\* C10 as stated: faticanti2020() runs every service, also one of an
\* application within its SLA, through the candidate scan, so the service
\* ends the step on the edge server the scan selects.
C10_ScansAllServices ==
    [][FaticantiServiceStep =>
         LET s == services[service_index]
             target == faticanti_target(FaticantiOrder(s), s)
         IN  server'[s] = IF target = 0 THEN server[s] ELSE target]_vars

\* C10 amended: faticanti2020() iterates over all services but runs the
\* candidate scan only for a service whose application's delay exceeds its
\* SLA when the service is reached; a service of an application within its
\* SLA is never migrated.
C10_ScansViolatorsOnly ==
    [][FaticantiServiceStep =>
         LET s == services[service_index]
         IN  WithinSla(s)
                => /\ server' = server
                   /\ demand' = demand
                   /\ migrations' = migrations
                   /\ delays' = delays]_vars

\* faticanti2020() has just passed over a service of an application within
\* its SLA for which the scan would have selected another edge server.
C10_Witness ==
    /\ pc = "faticanti_services"
    /\ service_index > 1
    /\ WithinSla(LastService)
    /\ delays = pre.delays
    /\ server[LastService] = pre.server[LastService]
    /\ faticanti_target(FaticantiOrder(LastService), LastService) # 0

-----------------------------------------------------------------------------
(* C11 *)

\* Free capacity of an edge server under the current demands.
FreeCapacity(n) == capacity[n] - demand[n]

\* A user's trust flag of an edge server.
TrustFlag(user, n) == IF n \in trusted_servers[user] THEN 1 ELSE 0

\* Position of an edge server in a list of edge servers.
ServerIndex(edge_servers, n) ==
    Min({i \in 1..Len(edge_servers) : edge_servers[i] = n})

\* Two edge servers with the same trust flag and the same delay to the user.
SameTrustAndDelay(user, m, n) ==
    /\ TrustFlag(user, m) = TrustFlag(user, n)
    /\ get_delay(user, m) = get_delay(user, n)

\* C11 as stated: faticanti2020() ranks the edge servers by (trust
\* descending, delay ascending, free capacity descending): of two servers
\* with the same trust flag and the same delay, the one with more free
\* capacity is tried first.
C11_MoreFreeFirst ==
    FaticantiServiceStep =>
        LET s == services[service_index]
            user == AppUser(ServiceApp(s))
        IN  \A m, n \in EdgeServers :
                (SameTrustAndDelay(user, m, n) /\ FreeCapacity(m) > FreeCapacity(n))
                    => ServerIndex(FaticantiOrder(s), m) < ServerIndex(FaticantiOrder(s), n)

\* C11 amended: faticanti2020() ranks the edge servers by (trust descending,
\* delay ascending, free capacity ascending): of two servers with the same
\* trust flag and the same delay, the one with less free capacity is tried
\* first, and servers equal in all three keep their enumeration order.
C11_LessFreeFirst ==
    FaticantiServiceStep =>
        LET s == services[service_index]
            user == AppUser(ServiceApp(s))
        IN  \A m, n \in EdgeServers :
                ServerIndex(FaticantiOrder(s), m) < ServerIndex(FaticantiOrder(s), n)
                    <=> \/ TrustFlag(user, m) > TrustFlag(user, n)
                        \/ /\ TrustFlag(user, m) = TrustFlag(user, n)
                           /\ get_delay(user, m) < get_delay(user, n)
                        \/ /\ SameTrustAndDelay(user, m, n)
                           /\ FreeCapacity(m) < FreeCapacity(n)
                        \/ /\ SameTrustAndDelay(user, m, n)
                           /\ FreeCapacity(m) = FreeCapacity(n)
                           /\ m < n

\* faticanti2020() has just migrated a service, the only migration of the
\* call so far, to an edge server although another one of the same trust
\* flag and delay had more free capacity and room for the service.
C11_Witness ==
    /\ pc = "faticanti_services"
    /\ service_index > 1
    /\ server[LastService] # pre.server[LastService]
    /\ \A t \in Services \ {LastService} : server[t] = pre.server[t]
    /\ \E m \in EdgeServers :
          /\ m # server[LastService]
          /\ SameTrustAndDelay(AppUser(ServiceApp(LastService)), m, server[LastService])
          /\ capacity[m] - pre.demand[m]
                > capacity[server[LastService]] - pre.demand[server[LastService]]
          /\ capacity[m] >= pre.demand[m] + service_demand[LastService]

-----------------------------------------------------------------------------
(* C12 *)

\* Slack of an application when the planner call began.
StartSlack(a) == delay_slas[a] - pre.delays[a]

\* Position of an application in the list argos() iterates over.
AppIndex(a) == Min({i \in 1..Len(apps) : apps[i] = a})

\* Application b comes before application a: less slack at the start of
\* the call, or the same slack and earlier in the enumeration.
ComesBefore(b, a) ==
    \/ StartSlack(b) < StartSlack(a)
    \/ (StartSlack(b) = StartSlack(a) /\ b < a)

\* Demand of the services the call under way has moved to edge server n.
MovedIn(n) ==
    SeqSum([s \in 1..Len(service_demand) |->
              IF server[s] = n /\ pre.server[s] # n THEN service_demand[s] ELSE 0])

\* Demand of the services the call under way has moved off edge server n.
MovedOut(n) ==
    SeqSum([s \in 1..Len(service_demand) |->
              IF server[s] # n /\ pre.server[s] = n THEN service_demand[s] ELSE 0])

\* argos() takes up an application whose delay exceeds its SLA.
ArgosTakesUpApp == pc = "argos_apps" /\ pc' = "argos_services"

\* C12: argos() walks one list of the applications, from front to back;
\* when it takes up a violating application, the applications behind it
\* in the list are exactly those with less slack at the start of the call,
\* or with the same slack and earlier in the enumeration; and the demands
\* it then works from carry every migration made earlier in the call.
C12_ApplicationOrder ==
    [][/\ (InArgos /\ InArgos')
            => /\ apps' = apps
               /\ app_index' \in {app_index, app_index + 1}
       /\ ArgosTakesUpApp
            => LET a == apps[app_index]
               IN  /\ pre.delays[a] > delay_slas[a]
                   /\ \A b \in Applications \ {a} :
                         AppIndex(b) < app_index <=> ComesBefore(b, a)
                   /\ \A n \in EdgeServers :
                         /\ demand[n] = pre.demand[n] + MovedIn(n) - MovedOut(n)
                         /\ demand'[n] = demand[n]]_vars

\* argos() took up the application with less slack first although it is
\* later in the enumeration, migrated its service, and has then left a
\* service of the other application in place because an edge server listed
\* ahead, with room when the call began, has been filled by that migration.
C12_Witness ==
    /\ pc = "argos_services"
    /\ apps = <<2, 1>>
    /\ app_index = 2
    /\ StartSlack(2) < StartSlack(1)
    /\ server[3] # pre.server[3]
    /\ service_index > 1
    /\ server[LastService] = pre.server[LastService]
    /\ \E i \in 1..Len(host_candidates) :
          /\ i < CandidateIndex(host_candidates, server[LastService])
          /\ host_candidates[i].object = server[3]
          /\ capacity[server[3]] >= pre.demand[server[3]] + service_demand[LastService]
          /\ ~ Fits(server[3], LastService)

\* argos() has processed two violating applications of equal slack in
\* enumeration order, with a migration for the first.
C12_TieWitness ==
    /\ pc = "argos_services"
    /\ apps = <<1, 2>>
    /\ app_index = 2
    /\ StartSlack(1) = StartSlack(2)
    /\ \E s \in {1, 2} : server[s] # pre.server[s]

-----------------------------------------------------------------------------
(* C13 *)

\* Positions in the log of the set_communication_path calls for an application.
PathRequests(a) ==
    {k \in 1..Len(log) : log[k].op = "set_communication_path" /\ log[k].of = a}

\* Positions in the log of the loop iterations for the services of an application.
ServiceEntries(a) ==
    {k \in 1..Len(log) : log[k].op = "service" /\ ServiceApp(log[k].of) = a}

\* The application's delay exceeded its SLA when the planner was called.
ViolatingAtStart(a) == pre.delays[a] > delay_slas[a]

\* C13: in a call of argos() the path and delay of an application are
\* recomputed (set_communication_path) at most once, only for an application
\* whose delay exceeds its SLA, right after the iterations for all services
\* of its chain and before any iteration for a service of another
\* application; when argos() has returned, exactly once for every
\* application whose delay exceeded its SLA.
C13_PathOncePerViolatingApp ==
    algorithm = "argos" =>
        \A a \in Applications :
            LET chain == app_services[a]
            IN  /\ Cardinality(PathRequests(a)) <= 1
                /\ PathRequests(a) # {} => ViolatingAtStart(a)
                /\ \A k \in PathRequests(a) :
                      /\ k > Len(chain)
                      /\ \A i \in 1..Len(chain) :
                            log[k - Len(chain) + i - 1] = [op |-> "service", of |-> chain[i]]
                      /\ \A i \in ServiceEntries(a) : i < k
                /\ \A i \in ServiceEntries(a) :
                      \A j \in 1..Len(log) :
                          (j > i /\ log[j].op = "service" /\ ServiceApp(log[j].of) # a)
                              => \E k \in PathRequests(a) : i < k /\ k < j
                /\ (Returned /\ ViolatingAtStart(a))
                      => Cardinality(PathRequests(a)) = 1

\* argos() has returned from a call that migrated a service of an
\* application beyond its SLA and requested that application's path once,
\* while the other application, within its SLA, got no request.
C13_Witness ==
    /\ algorithm = "argos"
    /\ Returned
    /\ \E a, b \in Applications :
          /\ ViolatingAtStart(a)
          /\ Cardinality(PathRequests(a)) = 1
          /\ \E s \in Services : ServiceApp(s) = a /\ server[s] # pre.server[s]
          /\ ~ ViolatingAtStart(b)
          /\ PathRequests(b) = {}

\* argos() is at work on the second of two applications beyond their SLA,
\* the first one's path already requested.
C13_BothWitness ==
    /\ pc = "argos_services"
    /\ app_index = 2
    /\ service_index > 1
    /\ PathRequests(apps[1]) # {}

-----------------------------------------------------------------------------
(* C14 *)

\* The loops of the planner call under way stand at an element of their
\* list or right behind its last one, so that the call runs the body for
\* that element or leaves the loop.
LoopsInRange ==
    /\ InArgos => app_index \in 1..(Len(apps) + 1)
    /\ pc \in {"argos_services", "faticanti_services"}
          => service_index \in 1..(Len(services) + 1)
    /\ pc = "argos_services" => app_index \in 1..Len(apps)

\* Iterations an application of argos() accounts for at most, head and
\* set_communication_path included.
RankPerApp == Cardinality(Services) + 2

\* Bound on the steps the planner call under way still has to take before
\* it returns.
PlannerRank ==
    IF pc = "argos_apps"
    THEN (Len(apps) - app_index + 1) * RankPerApp
    ELSE IF pc = "argos_services"
    THEN (Len(apps) - app_index) * RankPerApp + (Len(services) - service_index + 1) + 1
    ELSE Len(services) - service_index + 1

\* Positions in the log of the loop iterations for a service.
IterationsOf(s) ==
    {k \in 1..Len(log) : log[k].op = "service" /\ log[k].of = s}

\* Calls of the planner run() has made when it is at a given point of step
\* current_step.
ExpectedInvocations ==
    IF pc \in {"collect_metrics", "algorithm"} THEN current_step - 1
    ELSE IF pc = "finished" THEN simulation_steps
    ELSE current_step

\* The call under way stands within its lists with a bounded count of steps
\* left, has run the loop body at most once for each service, and is the
\* one call of its step.
RunsOncePerStep ==
    /\ InPlanner => (PlannerRank >= 0 /\ LoopsInRange)
    /\ \A s \in Services : Cardinality(IterationsOf(s)) <= 1
    /\ invocations = ExpectedInvocations

\* C14: a call of argos() or faticanti2020() always stands at an element of
\* its finite lists or at the end of a loop, every step it takes lowers a
\* bounded count of the steps left, so it returns, and it runs the loop body
\* for each service at most once; run() calls the planner exactly once in
\* each step, and the next step's state update begins only when the call
\* has returned.
C14_RunToCompletion ==
    [][/\ RunsOncePerStep
       /\ RunsOncePerStep'
       /\ (InPlanner /\ InPlanner') => PlannerRank' < PlannerRank
       /\ current_step' > current_step
             => /\ ~ InPlanner
                /\ NoLocals
                /\ invocations = current_step
                /\ current_step' = current_step + 1]_vars

\* The last step's call of the planner has returned after running the loop
\* body once for each of three services, with a migration.
C14_Witness ==
    /\ pc = "final_metrics"
    /\ invocations = simulation_steps
    /\ \A s \in 1..3 : Cardinality(IterationsOf(s)) = 1
    /\ \E s \in Services : server[s] # pre.server[s]

-----------------------------------------------------------------------------
(* C15 *)

\* Candidate record c is not behind record d under the ordering the
\* feasibility flag selects: (trust flag descending, delay ascending,
\* trusting users ascending) if the flag is true, (delay ascending, trusting
\* users ascending) if it is false.
NotBehind(flag, c, d) ==
    \/ flag /\ c.is_trusted > d.is_trusted
    \/ /\ flag => c.is_trusted = d.is_trusted
       /\ \/ c.delay < d.delay
          \/ (c.delay = d.delay /\ c.trusted_users <= d.trusted_users)

\* Positions of a candidate list ahead of the service's current edge server
\* whose edge server has room for the service.
RoomAhead(candidates, s) ==
    {i \in 1..Len(candidates) :
        /\ i < CandidateIndex(candidates, server[s])
        /\ Fits(candidates[i].object, s)}

\* C15: argos() takes the services of a violating application in the order
\* of the application's chain; for each it scans a list with one record per
\* edge server, ordered by (trust flag descending, delay ascending, trusting
\* users ascending) if the service's feasibility flag is true and by (delay
\* ascending, trusting users ascending) if it is false; the service moves to
\* the first edge server of the list that has room and stands ahead of its
\* current edge server, and stays if there is none.
C15_GreedySelection ==
    [][ArgosServiceStep =>
         LET s == services[service_index]
             flag == allocation_insights[s]
             scanned == host_candidates'
         IN  /\ services = app_services[apps[app_index]]
             /\ Len(scanned) = Cardinality(EdgeServers)
             /\ \A n \in EdgeServers :
                   \E i \in 1..Len(scanned) :
                      scanned[i] = get_host_candidates(AppUser(apps[app_index]))[n]
             /\ \A i, j \in 1..Len(scanned) :
                   i < j => NotBehind(flag, scanned[i], scanned[j])
             /\ server' = [server EXCEPT ![s] =
                              IF RoomAhead(scanned, s) = {} THEN server[s]
                              ELSE scanned[Min(RoomAhead(scanned, s))].object]
             /\ service_index' = service_index + 1]_vars

\* argos() has gone through a chain whose second service has the larger
\* demand: the first service, flagged feasible, and the second, flagged
\* infeasible, have both been migrated.
C15_Witness ==
    /\ pc = "argos_services"
    /\ services = <<1, 2>>
    /\ service_index = 3
    /\ service_demand[1] < service_demand[2]
    /\ allocation_insights[1]
    /\ ~ allocation_insights[2]
    /\ server[1] # pre.server[1]
    /\ server[2] # pre.server[2]

-----------------------------------------------------------------------------
(* C16 *)

\* get_allocation_insights has just returned to argos().
ProbeReturned == pc = "argos_services" /\ service_index = 1

\* Positions in the probe's trace of the tentative increments for a service.
IncrementsFor(s) == {k \in ProbeEntries : probe.trace[k].service = s}

\* Demand the probe has tentatively added to edge server n for the services
\* ahead of position j of the probed list.
TentativelyPlaced(n, j) ==
    SeqSum([k \in 1..Len(probe.trace) |->
              IF /\ probe.trace[k].edge_node = n
                 /\ \E i \in 1..(j - 1) : services[i] = probe.trace[k].service
              THEN service_demand[probe.trace[k].service] ELSE 0])

\* Edge server n has room for the service at position j of the probed list
\* on top of its demand and of what the probe has tentatively placed on it.
ProbeRoom(n, j) ==
    capacity[n] >= demand[n] + TentativelyPlaced(n, j) + service_demand[services[j]]

\* C16: get_allocation_insights returns a flag for every service of its
\* list; the flag is true exactly if some trusted edge server has capacity
\* >= its demand + the demands of earlier probed services tentatively placed
\* on it + the service's demand, and then the first such server in the order
\* fixed before the loop receives the service's increment; a service flagged
\* false changes no demand; a user without trusted edge servers gets false
\* for every service.
C16_ProbeFlags ==
    ProbeReturned =>
        /\ DOMAIN allocation_insights = {services[j] : j \in 1..Len(services)}
        /\ \A j \in 1..Len(services) :
              LET s == services[j]
                  room == {i \in 1..Len(probe.order) : ProbeRoom(probe.order[i], j)}
              IN  /\ allocation_insights[s] \in BOOLEAN
                  /\ allocation_insights[s]
                        <=> \E n \in trusted_servers[probe.user] : ProbeRoom(n, j)
                  /\ allocation_insights[s]
                        => /\ Cardinality(IncrementsFor(s)) = 1
                           /\ \A k \in IncrementsFor(s) :
                                 probe.trace[k].edge_node = probe.order[Min(room)]
                  /\ ~ allocation_insights[s] => IncrementsFor(s) = {}
        /\ {probe.order[i] : i \in 1..Len(probe.order)} = trusted_servers[probe.user]
        /\ trusted_servers[probe.user] = {}
              => \A j \in 1..Len(services) : ~ allocation_insights[services[j]]

\* The probe has flagged the first service feasible and the second one
\* infeasible although a trusted edge server had room for the second alone:
\* the first service's tentative increment took it.
C16_Witness ==
    /\ ProbeReturned
    /\ Len(services) = 2
    /\ allocation_insights[services[1]]
    /\ ~ allocation_insights[services[2]]
    /\ \E n \in trusted_servers[probe.user] :
          capacity[n] >= demand[n] + service_demand[services[2]]

\* The probe has returned false for both services of a user who trusts no
\* edge server.
C16_NoTrustWitness ==
    /\ ProbeReturned
    /\ Len(services) = 2
    /\ trusted_servers[probe.user] = {}
    /\ ~ allocation_insights[services[1]]

-----------------------------------------------------------------------------
(* C17 *)

\* Users other than the given one that trust edge server n.
OtherTrustingUsers(user, n) == {u \in Users \ {user} : n \in trusted_servers[u]}

\* C17: the list get_host_candidates(user) hands to argos() has exactly one
\* record per edge server, in enumeration order, with is_trusted = 1 exactly
\* if the user trusts the edge server and trusted_users the number of other
\* users that trust it; the call leaves the configuration, the placement,
\* the demands, the delays and the migration histories as they were.
C17_HostCandidates ==
    [][ArgosTakesUpApp =>
         LET user == AppUser(apps[app_index])
             listed == host_candidates'
         IN  /\ Len(listed) = Cardinality(EdgeServers)
             /\ \A n \in EdgeServers :
                   /\ listed[n].object = n
                   /\ listed[n].is_trusted \in {0, 1}
                   /\ listed[n].is_trusted = 1 <=> n \in trusted_servers[user]
                   /\ listed[n].trusted_users = Cardinality(OtherTrustingUsers(user, n))
             /\ UNCHANGED <<config, server, demand, delays, base_station,
                            migrations, current_step>>]_vars

\* argos() holds the fresh list of a user who trusts an edge server that
\* one other user trusts as well, and an edge server that only the other
\* user trusts.
C17_Witness ==
    /\ ProbeReturned
    /\ \E m, n \in EdgeServers :
          /\ host_candidates[m].object = m
          /\ host_candidates[m].is_trusted = 1
          /\ host_candidates[m].trusted_users = 1
          /\ OtherTrustingUsers(probe.user, m) # {}
          /\ host_candidates[n].object = n
          /\ host_candidates[n].is_trusted = 0
          /\ host_candidates[n].trusted_users = 1

-----------------------------------------------------------------------------
(* C18 *)

\* Sum of the demands of the services assigned to edge server n.
AssignedDemand(n) ==
    SeqSum([s \in 1..Len(service_demand) |->
              IF server[s] = n THEN service_demand[s] ELSE 0])

\* C18: placement consistency.  In every state between the steps of a run,
\* so after every committed migration and when argos() or faticanti2020()
\* has returned, every service is assigned to one edge server, it is among
\* the hosted services of that edge server and of no other, every edge
\* server's demand is the sum of the demands of the services assigned to
\* it, and the demands add up to the total demand of the services.
C18_PlacementConsistency ==
    /\ \A s \in Services :
          /\ server[s] \in EdgeServers
          /\ {n \in EdgeServers : s \in Hosted(n, server)} = {server[s]}
    /\ \A n \in EdgeServers : demand[n] = AssignedDemand(n)
    /\ SeqSum(demand) = SeqSum(service_demand)

\* The planner has returned from a call that migrated two services, one of
\* them off an edge server that the other one moved to.
C18_Witness ==
    /\ Returned
    /\ \E s, t \in Services :
          /\ s # t
          /\ server[s] # pre.server[s]
          /\ server[t] # pre.server[t]
          /\ server[t] = pre.server[s]
          /\ demand[server[t]] # pre.demand[server[t]]

-----------------------------------------------------------------------------
(* C19 *)

\* What a call of argos() has left untouched for the applications within
\* their SLA when it was called: delay, services, histories; no loop
\* iteration and no set_communication_path call was spent on them.
NonViolatingUntouched ==
    \A a \in Applications :
        ~ ViolatingAtStart(a)
            => /\ delays[a] = pre.delays[a]
               /\ PathRequests(a) = {}
               /\ ServiceEntries(a) = {}
               /\ \A s \in Services :
                     ServiceApp(s) = a
                        => /\ server[s] = pre.server[s]
                           /\ migrations[s] = pre.migrations[s]

\* C19: frame of argos().  A step of a call of argos() leaves capacities,
\* trust sets, SLAs, service demands, chains and network demands, the
\* users' base stations, the step counter and the metrics as they are; it
\* changes at most the placement, the demands, the migration histories and
\* the delay of the application it is working on; and throughout the call
\* and on return the applications within their SLA keep their delay, their
\* services' placement and histories.
C19_ArgosFrame ==
    [][(algorithm = "argos" /\ (pc = "algorithm" \/ InArgos))
          => /\ UNCHANGED <<capacity, trusted_servers, delay_slas, service_demand,
                            app_services, network_demand>>
             /\ UNCHANGED <<base_station, current_step, metrics, original>>
             /\ \A a \in Applications :
                   delays'[a] # delays[a]
                      => /\ pc = "argos_services"
                         /\ a = apps[app_index]
                         /\ ViolatingAtStart(a)
             /\ NonViolatingUntouched']_vars

\* argos() is about to return: it has migrated a service of the application
\* beyond its SLA, whose delay now differs, and has passed over the other
\* application, within its SLA, whose service stands where it stood.
C19_Witness ==
    /\ pc = "argos_apps"
    /\ app_index > Len(apps)
    /\ \E a, b \in Applications :
          /\ ViolatingAtStart(a)
          /\ delays[a] # pre.delays[a]
          /\ \E s \in Services : ServiceApp(s) = a /\ server[s] # pre.server[s]
          /\ ~ ViolatingAtStart(b)
          /\ delays[b] = pre.delays[b]
          /\ \A s \in Services : ServiceApp(s) = b => server[s] = pre.server[s]

-----------------------------------------------------------------------------
(* C20 *)

\* Positions in the log of the loop iterations of the call.
Iterations == {k \in 1..Len(log) : log[k].op = "service"}

\* Service s is not to be handled after service t: lower position in its
\* chain, or the same position and an application with no more network demand.
NotAfter(s, t) ==
    \/ ChainIndex(s) < ChainIndex(t)
    \/ /\ ChainIndex(s) = ChainIndex(t)
       /\ network_demand[ServiceApp(s)] <= network_demand[ServiceApp(t)]

\* C20: faticanti2020() handles the services in ascending order of (position
\* in the chain, network demand of the application), so every service that
\* is first in its chain before any that is second; and it reads the
\* application's delay again for each service, so a service reached when
\* its application is within its SLA, be it because a migration of the same
\* call brought the delay down, is not migrated.
C20_FaticantiServiceOrder ==
    [][FaticantiServiceStep =>
         LET s == services[service_index]
         IN  /\ log'[Len(log) + 1] = [op |-> "service", of |-> s]
             /\ \A k \in Iterations : NotAfter(log[k].of, s)
             /\ \A k \in Iterations :
                   ChainIndex(s) = 0 => ChainIndex(log[k].of) = 0
             /\ (pre.delays[ServiceApp(s)] > delay_slas[ServiceApp(s)] /\ WithinSla(s))
                   => /\ server' = server
                      /\ demand' = demand
                      /\ migrations' = migrations
             /\ server'[s] # server[s]
                   => delays[ServiceApp(s)] > delay_slas[ServiceApp(s)]]_vars

\* faticanti2020() has handled the first services of both chains, the one
\* of the application with less network demand first although it is later
\* in the enumeration, has migrated the first service of the other chain,
\* which brought that application within its SLA, and has then left the
\* second service of that chain in place although the scan had a target.
C20_Witness ==
    /\ pc = "faticanti_services"
    /\ services = <<3, 1, 2>>
    /\ service_index = 4
    /\ server[1] # pre.server[1]
    /\ pre.delays[1] > delay_slas[1]
    /\ delays[1] <= delay_slas[1]
    /\ server[2] = pre.server[2]
    /\ faticanti_target(FaticantiOrder(2), 2) # 0

-----------------------------------------------------------------------------
(* C21 *)

\* The step appends a sample to the metrics.
SampleTaken == Len(metrics') > Len(metrics)

\* The step enters the planner.
PlannerCalled == invocations' > invocations

\* C21 as stated: in every step the state update comes first, then the
\* planner, and the sample that carries the step's number is taken when the
\* planner's call of that step has been made.
C21_SampleAfterPlanner ==
    [][SampleTaken =>
         /\ metrics'[Len(metrics')].step = current_step
         /\ invocations = current_step]_vars

\* C21 amended: in every step run() updates the state, then takes the
\* sample that carries the step's number, and only then calls the planner,
\* so that sample is taken before the planner's migrations of the step; only
\* the one further sample taken after the loop, which carries the last
\* step's number again, comes after the planner's last call.
C21_SampleBeforePlanner ==
    [][/\ SampleTaken
          => /\ metrics'[Len(metrics')].step = current_step
             /\ ~ InPlanner
             /\ IF Len(metrics) < simulation_steps
                THEN /\ Len(metrics') = current_step
                     /\ invocations = current_step - 1
                ELSE /\ current_step = simulation_steps
                     /\ invocations = simulation_steps
       /\ PlannerCalled
          => /\ Len(metrics) = current_step
             /\ metrics[Len(metrics)].step = current_step
             /\ invocations' = current_step
       /\ current_step' > current_step
          => /\ Len(metrics) = current_step
             /\ invocations = current_step]_vars

\* The planner has returned from the call of the first step with a migration
\* made; the sample that carries step 1 was taken before and counts none.
C21_Witness ==
    /\ Returned
    /\ current_step = 1
    /\ Len(metrics) = 1
    /\ metrics[1].step = 1
    /\ metrics[1].migrations = 0
    /\ \E s \in Services : Len(migrations[s]) = 1 /\ migrations[s][1] = 1

-----------------------------------------------------------------------------
(* C22 *)

\* argos() has returned from the second call of a run in which the state
\* updates left base stations and delays as they were: original.server is
\* the placement the first call began with, pre.server the placement the
\* second call began with.
SecondSteadyCallReturned ==
    /\ algorithm = "argos"
    /\ steady
    /\ Returned
    /\ current_step = 2

\* C22: convergence without churn.  With the users' positions, the delays
\* and so the set of violating applications unchanged from call to call,
\* repeated calls of argos() do not cycle: the second call never takes a
\* service back to the edge server the first call moved it away from, which
\* would restore the placement the first call began with and have the
\* calls repeat the two moves for ever.
C22_NoChurn ==
    SecondSteadyCallReturned =>
        ~ \E s \in Services :
             /\ pre.server[s] # original.server[s]
             /\ server[s] = original.server[s]
             /\ server = original.server
             /\ demand = original.demand

-----------------------------------------------------------------------------
(* C23 *)

\* C23: no trust regression.  argos() never moves a service from an edge
\* server its user trusts to one the user does not trust; and a service
\* whose feasibility flag is false is not on a trusted edge server when
\* its turn comes.
C23_NoTrustRegression ==
    [][ArgosServiceStep =>
         LET s == services[service_index]
         IN  /\ Trusts(s, server[s]) => Trusts(s, server'[s])
             /\ ~ allocation_insights[s] => ~ Trusts(s, server[s])]_vars

-----------------------------------------------------------------------------
(* C24 *)

\* Number of migrations show_results reports: the length of the samples'
\* migration lists put together.
number_of_migrations ==
    SeqSum([i \in 1..Len(metrics) |-> metrics[i].migrations])

\* Number of migration events appended to the services' histories.
MigrationEvents ==
    SeqSum([s \in 1..Len(migrations) |-> Len(migrations[s])])

\* run() has taken its last sample and has not yet restored the original state.
RunSampled == pc = "restore"

\* C24: migration accounting.  When run() has taken its last sample, every
\* migration of the run has been counted in exactly one sample, so the
\* number of migrations reported equals the number of migration events
\* appended during the run.
C24_MigrationAccounting ==
    RunSampled => number_of_migrations = MigrationEvents

-----------------------------------------------------------------------------
(* C25 *)

\* Since the planner was called, every service's history has kept what it
\* held and has grown by at most one entry, and the services that changed
\* their edge server are those whose history grew.
OneMovePerCall ==
    \A s \in Services :
        /\ Len(migrations[s]) \in {Len(pre.migrations[s]), Len(pre.migrations[s]) + 1}
        /\ SubSeq(migrations[s], 1, Len(pre.migrations[s])) = pre.migrations[s]
        /\ server[s] # pre.server[s] => Len(migrations[s]) = Len(pre.migrations[s]) + 1

\* C25: in one call of argos() or faticanti2020() a service is migrated at
\* most once; a migration takes the service to an edge server other than
\* the one it is on; each migration appends one entry to the service's
\* history, and no step of the call shortens or rewrites a history.
C25_OneMovePerService ==
    [][InPlanner =>
         /\ \A s \in Services :
               /\ migrations'[s] # migrations[s]
                     => /\ migrations'[s] = Append(migrations[s], current_step)
                        /\ server'[s] # server[s]
                        /\ Len(migrations[s]) = Len(pre.migrations[s])
               /\ server'[s] # server[s] => migrations'[s] # migrations[s]
         /\ OneMovePerCall']_vars

\* The planner has returned from its second call: a service it migrated in
\* the first call has been migrated again, one entry per call.
C25_Witness ==
    /\ Returned
    /\ \E s \in Services :
          /\ migrations[s] = <<1, 2>>
          /\ pre.migrations[s] = <<1>>
          /\ server[s] # pre.server[s]

====
